---- MODULE Spec2Model ----
(***************************************************************************)
(* Model of taar/profile_fetcher.py: the record codec (json + zlib), the   *)
(* BigTable and DynamoDB profile controllers and the ProfileFetcher.       *)
(*                                                                         *)
(* A Python call is modelled by its outcome: [st |-> "ok", v |-> value]    *)
(* when it returns and [st |-> "raise", exc |-> name] when it raises.      *)
(***************************************************************************)
EXTENDS Integers, Sequences, FiniteSets, TLC

VARIABLES client,        \* ProfileFetcher.__client
          constructed,   \* number of backends built by the _client property
          injections,    \* number of set_client calls so far
          lastInjected,  \* argument of the last set_client call
          hist,          \* lookedUp: a get read __client before any set_client;
                         \* injectedNone: set_client(None) was called
          btTable,       \* the BigTable table
          ddbTable,      \* the DynamoDB table
          now,           \* datetime.utcnow(), in timestamp granules
          writes,        \* number of set_client_profile calls so far
          lastSet,       \* per client, the record of the last successful write
          thr,           \* per thread, its position in ProfileFetcher.get
          ret            \* outcome of the last completed call

vars == <<client, constructed, injections, lastInjected, hist,
          btTable, ddbTable, now, writes, lastSet, thr, ret>>

fetcherVars == <<client, constructed, injections, lastInjected, hist>>
storeVars == <<btTable, ddbTable, now, writes, lastSet>>

----------------------------------------------------------------------------
(* Bounds *)

MaxConstruct == 2
MaxInject == 2
MaxTime == 2
MaxWrites == 3
MaxAddons == 2
NumThreads == 2

----------------------------------------------------------------------------
(* Values *)

None == [none |-> TRUE]

Ok(v) == [st |-> "ok", v |-> v]

Raise(e) == [st |-> "raise", exc |-> e]

ClientIds == {"c1", "c2"}

\* the two reserved sets are imported from taar.recommenders; one member each
TEST_CLIENT_IDS == {"t1"}

EMPTY_TEST_CLIENT_IDS == {"e1"}

AllIds == ClientIds \cup TEST_CLIENT_IDS \cup EMPTY_TEST_CLIENT_IDS

StrKeys == {"client_id", "city", "locale", "os", "extra"}

IntKeys == {"subsession_length", "places_bookmarks_count",
            "scalar_parent_browser_engagement_tab_open_event_count",
            "scalar_parent_browser_engagement_total_uri_count",
            "scalar_parent_browser_engagement_unique_domains_count"}

KeyOrder == <<"client_id", "city", "locale", "os", "extra",
              "subsession_length", "places_bookmarks_count",
              "scalar_parent_browser_engagement_tab_open_event_count",
              "scalar_parent_browser_engagement_total_uri_count",
              "scalar_parent_browser_engagement_unique_domains_count",
              "active_addons", "disabled_addons_ids">>

EmptyDict == [k \in {} |-> 0]

DictGet(d, k, default) == IF k \in DOMAIN d THEN d[k] ELSE default

----------------------------------------------------------------------------
(* Record codec: json.dumps / json.loads, str.encode / bytes.decode,       *)
(* zlib.compress / zlib.decompress.                                        *)
(*   JSON text  : [wf, toks]   wf = the text is well-formed JSON           *)
(*   bytes      : [utf8, text] utf8 = the bytes are valid UTF-8            *)
(*   compressed : [magic, data, adler]                                     *)
(***************************************************************************)

ZlibMagic == 120

AdlerMod == 65521

RECURSIVE DumpsStrList(_)
DumpsStrList(l) ==
    IF l = <<>> THEN <<>>
    ELSE <<[t |-> "str", s |-> Head(l)]>> \o DumpsStrList(Tail(l))

DumpsAddon(a) ==
    (IF "addon_id" \in DOMAIN a
        THEN <<[k |-> "addon_id", v |-> [t |-> "str", s |-> a.addon_id]]>>
        ELSE <<>>)
    \o
    (IF "is_system" \in DOMAIN a
        THEN <<[k |-> "is_system", v |-> [t |-> "bool", b |-> a.is_system]]>>
        ELSE <<>>)

RECURSIVE DumpsAddonList(_)
DumpsAddonList(l) ==
    IF l = <<>> THEN <<>>
    ELSE <<[t |-> "obj", o |-> DumpsAddon(Head(l))]>> \o DumpsAddonList(Tail(l))

DumpsValue(k, v) ==
    IF k \in StrKeys THEN [t |-> "str", s |-> v]
    ELSE IF k \in IntKeys THEN [t |-> "num", n |-> v]
    ELSE IF k = "active_addons" THEN [t |-> "arr", a |-> DumpsAddonList(v)]
    ELSE [t |-> "arr", a |-> DumpsStrList(v)]

RECURSIVE DumpsFrom(_, _)
DumpsFrom(r, i) ==
    IF i > Len(KeyOrder) THEN <<>>
    ELSE (IF KeyOrder[i] \in DOMAIN r
             THEN <<[k |-> KeyOrder[i], v |-> DumpsValue(KeyOrder[i], r[KeyOrder[i]])]>>
             ELSE <<>>)
         \o DumpsFrom(r, i + 1)

Dumps(r) == [wf |-> TRUE, toks |-> DumpsFrom(r, 1)]

RECURSIVE LoadsValue(_)
RECURSIVE LoadsPairs(_)
RECURSIVE LoadsList(_)
LoadsValue(tok) ==
    IF tok.t = "str" THEN tok.s
    ELSE IF tok.t = "num" THEN tok.n
    ELSE IF tok.t = "bool" THEN tok.b
    ELSE IF tok.t = "obj" THEN LoadsPairs(tok.o)
    ELSE LoadsList(tok.a)

LoadsPairs(ps) ==
    IF ps = <<>> THEN EmptyDict
    ELSE LoadsPairs(Tail(ps)) @@ (Head(ps).k :> LoadsValue(Head(ps).v))

LoadsList(l) ==
    IF l = <<>> THEN <<>>
    ELSE <<LoadsValue(Head(l))>> \o LoadsList(Tail(l))

Loads(text) ==
    IF text.wf THEN Ok(LoadsPairs(text.toks)) ELSE Raise("JSONDecodeError")

EncodeUtf8(text) == [utf8 |-> TRUE, text |-> text]

DecodeUtf8(bytes) ==
    IF bytes.utf8 THEN Ok(bytes.text) ELSE Raise("UnicodeDecodeError")

Adler(bytes) ==
    (1 + Len(bytes.text.toks) + (IF bytes.utf8 THEN 2 ELSE 0)
       + (IF bytes.text.wf THEN 4 ELSE 0)) % AdlerMod

Compress(bytes) == [magic |-> ZlibMagic, data |-> bytes, adler |-> Adler(bytes)]

Decompress(p) ==
    IF p.magic = ZlibMagic /\ p.adler = Adler(p.data)
    THEN Ok(p.data) ELSE Raise("zlib.error")

Encode(r) == Compress(EncodeUtf8(Dumps(r)))

Decode(p) ==
    LET z == Decompress(p) IN
    IF z.st = "raise" THEN z
    ELSE LET u == DecodeUtf8(z.v) IN
         IF u.st = "raise" THEN u ELSE Loads(u.v)

----------------------------------------------------------------------------
(* Profile records *)

R1(id) == [client_id |-> id]

R2(id) == [client_id |-> id, city |-> "Paris", locale |-> "fr", os |-> "Darwin",
           places_bookmarks_count |-> 5,
           active_addons |-> <<[addon_id |-> "ublock"]>>]

R3(id) == [client_id |-> id, extra |-> "x", subsession_length |-> 7,
           active_addons |-> <<[addon_id |-> "a", is_system |-> TRUE],
                               [addon_id |-> "b"]>>,
           disabled_addons_ids |-> <<"d">>]

SetRecords == UNION {{R1(id), R2(id), R3(id)} : id \in ClientIds}

----------------------------------------------------------------------------
(* BigTableProfileController: one table, a row per client, cells of the    *)
(* payload column identified by their timestamp.                           *)

RowKey(id) == <<"utf8", id>>

RowKeys == {RowKey(id) : id \in ClientIds}

EmptyTable == [k \in RowKeys |-> {}]

\* variant: the oldest cell is taken for the most recent one
Oldest(cells) == CHOOSE c \in cells : \A d \in cells : c.ts <= d.ts

Latest(cells) == CHOOSE c \in cells : \A d \in cells : d.ts <= c.ts

\* table.read_row(row_key, CellsColumnLimitFilter(1)): the row restricted to
\* its most recent cell, or None when no cell matches
ReadRow(table, key) ==
    IF table[key] = {} THEN None
    ELSE [cells |-> <<Latest(table[key])>>]

\* row.set_cell(..., timestamp=ts) + table.mutate_rows([row])
MutateRow(table, key, payload, ts) ==
    [table EXCEPT ![key] = {c \in @ : c.ts # ts} \cup {[ts |-> ts, value |-> payload]}]

BT_set_client_profile(table, client_profile, ts) ==
    MutateRow(table, RowKey(client_profile["client_id"]), Encode(client_profile), ts)

BT_get_client_profile(table, client_id, io) ==
    IF ~io THEN Raise("TransportError")
    ELSE LET row == ReadRow(table, RowKey(client_id)) IN
         IF row = None THEN Raise("AttributeError")
         ELSE Decode(row.cells[1].value)

\* MaxVersionsGCRule(1), applied by the storage system at a time of its choosing
GcRow(cells) == IF cells = {} THEN {} ELSE {Latest(cells)}

----------------------------------------------------------------------------
(* ProfileController (DynamoDB): an item per client, attribute json_payload *)

CorruptZlib(r) == [Encode(r) EXCEPT !.adler = (@ + 1) % AdlerMod]

BadUtf8(r) == Compress([utf8 |-> FALSE, text |-> Dumps(r)])

BadJson == Compress(EncodeUtf8([wf |-> FALSE, toks |-> <<>>]))

DdbItems(id) ==
    {None, [client_id |-> id],
     [client_id |-> id, json_payload |-> Encode(R2(id))],
     [client_id |-> id, json_payload |-> Encode(R3(id))],
     [client_id |-> id, json_payload |-> CorruptZlib(R2(id))],
     [client_id |-> id, json_payload |-> BadUtf8(R2(id))],
     [client_id |-> id, json_payload |-> BadJson]}

\* self._table.get_item(Key={"client_id": client_id})
GetItem(table, client_id, io) ==
    IF ~io THEN Raise("ClientError")
    ELSE IF table[client_id] = None THEN Ok(EmptyDict)
    ELSE Ok([Item |-> table[client_id]])

\* the body of the try block
DDB_try(table, client_id, io) ==
    LET response == GetItem(table, client_id, io) IN
    IF response.st = "raise" THEN response
    ELSE IF "Item" \notin DOMAIN response.v THEN Raise("KeyError")
    ELSE IF "json_payload" \notin DOMAIN response.v.Item THEN Raise("KeyError")
    ELSE Decode(response.v.Item.json_payload)

\* variant: only KeyError is handled
DDB_exceptKeyErrorOnly(exc) == IF exc = "KeyError" THEN Ok(None) ELSE Raise(exc)

\* except KeyError: return None / except Exception: log, return None
DDB_except(exc) == IF exc = "KeyError" THEN Ok(None) ELSE Ok(None)

DDB_get_client_profile(table, client_id, io) ==
    LET body == DDB_try(table, client_id, io) IN
    IF body.st = "raise" THEN DDB_except(body.exc) ELSE body

----------------------------------------------------------------------------
(* The outcome of the last call, as its caller observes it *)

Ret(op, id, out, io, lookups, built, epoch) ==
    [op |-> op, id |-> id,
     st |-> IF out.st = "ok" THEN "return" ELSE "raise",
     val |-> IF out.st = "ok" THEN out.v ELSE None,
     exc |-> IF out.st = "ok" THEN "" ELSE out.exc,
     io |-> io, lookups |-> lookups, built |-> built, epoch |-> epoch]

NoRet == Ret("init", "", Ok(None), TRUE, <<>>, 0, 0)

Idle == [pc |-> "idle", id |-> "", tmp |-> None, local |-> None, epoch |-> 0]

Threads == 1..NumThreads

----------------------------------------------------------------------------
(* Direct use of the two controllers *)

BtSet(r) ==
    /\ writes < MaxWrites
    /\ \E ts \in now..(IF now < MaxTime THEN now + 1 ELSE now), okw \in BOOLEAN :
          /\ now' = ts
          /\ writes' = writes + 1
          /\ IF okw
                THEN /\ btTable' = BT_set_client_profile(btTable, r, ts)
                     /\ lastSet' = [lastSet EXCEPT ![r["client_id"]] = r]
                     /\ ret' = Ret("bt_set", r["client_id"], Ok(None), TRUE, <<>>, 0, injections)
                ELSE /\ UNCHANGED <<btTable, lastSet>>
                     /\ ret' = Ret("bt_set", r["client_id"], Raise("TransportError"), FALSE, <<>>, 0, injections)
    /\ UNCHANGED <<fetcherVars, ddbTable, thr>>

BtGet(id) ==
    /\ \E io \in BOOLEAN :
          ret' = Ret("bt_get", id, BT_get_client_profile(btTable, id, io), io, <<>>, 0, injections)
    /\ UNCHANGED <<fetcherVars, storeVars, thr>>

BtGC ==
    /\ \E k \in RowKeys : Cardinality(btTable[k]) > 1
    /\ btTable' = [k \in RowKeys |-> GcRow(btTable[k])]
    /\ UNCHANGED <<fetcherVars, ddbTable, now, writes, lastSet, thr, ret>>

DdbGet(id) ==
    /\ \E io \in BOOLEAN :
          ret' = Ret("ddb_get", id, DDB_get_client_profile(ddbTable, id, io), io, <<>>, 0, injections)
    /\ UNCHANGED <<fetcherVars, storeVars, thr>>

StoreInit ==
    /\ client = None
    /\ constructed = 0
    /\ injections = 0
    /\ lastInjected = None
    /\ hist = [lookedUp |-> FALSE, injectedNone |-> FALSE]
    /\ btTable = EmptyTable
    /\ ddbTable \in {[id \in ClientIds |-> IF id = "c1" THEN i ELSE None] : i \in DdbItems("c1")}
    /\ now = 0
    /\ writes = 0
    /\ lastSet = [id \in ClientIds |-> None]
    /\ thr = [t \in Threads |-> Idle]
    /\ ret = NoRet

StoreNext ==
    \/ \E r \in SetRecords : BtSet(r)
    \/ \E id \in ClientIds : BtGet(id)
    \/ BtGC
    \/ \E id \in ClientIds : DdbGet(id)

StoreSpec == StoreInit /\ [][StoreNext]_vars

----------------------------------------------------------------------------
(* ProfileFetcher *)

DefaultBackend(n) == [kind |-> "BigTableProfileController", inst |-> n]

InjectedBigTable == [kind |-> "BigTableProfileController", inst |-> 0]

DynamoBackend == [kind |-> "ProfileController", inst |-> 0]

Injectables == {None, DynamoBackend, InjectedBigTable}

\* variant: the cached backend is never reused
NeedsConstructAlways(c) == TRUE

\* the test of the _client property
NeedsConstruct(c) == c = None

\* the whole _client property, run without interruption
ClientProperty(c, n, ctorOk) ==
    IF NeedsConstruct(c)
    THEN IF ctorOk
         THEN [st |-> "ok", client |-> DefaultBackend(n + 1), constructed |-> n + 1,
               v |-> DefaultBackend(n + 1)]
         ELSE [st |-> "raise", exc |-> "ConstructionError", client |-> c,
               constructed |-> n, v |-> None]
    ELSE [st |-> "ok", client |-> c, constructed |-> n, v |-> c]

\* backend.get_client_profile(client_id), dispatched on the backend's class
Lookup(b, id, io) ==
    IF b = None THEN Raise("AttributeError")
    ELSE IF b.kind = "ProfileController" THEN DDB_get_client_profile(ddbTable, id, io)
    ELSE BT_get_client_profile(btTable, id, io)

\* variant: the second reserved set is not consulted
IsReservedTestOnly(client_id) == client_id \in TEST_CLIENT_IDS

IsReserved(client_id) ==
    client_id \in TEST_CLIENT_IDS \/ client_id \in EMPTY_TEST_CLIENT_IDS

Synthetic(client_id) ==
    [client_id |-> client_id, geo_city |-> "Toronto", subsession_length |-> 42,
     locale |-> "en-CA", os |-> "Linux", installed_addons |-> <<>>,
     disabled_addons_ids |-> <<>>, bookmark_count |-> 0, tab_open_count |-> 0,
     total_uri |-> 0, unique_tlds |-> 0]

\* variant: system add-ons are not filtered out
NotSystemAll(addon) == TRUE

\* not addon.get("is_system", False)
NotSystem(addon) == ~DictGet(addon, "is_system", FALSE)

\* the list comprehension over active_addons, left to right
RECURSIVE AddonIds(_)
AddonIds(addons) ==
    IF addons = <<>> THEN Ok(<<>>)
    ELSE IF NotSystem(Head(addons))
         THEN IF "addon_id" \notin DOMAIN Head(addons) THEN Raise("KeyError")
              ELSE LET rest == AddonIds(Tail(addons)) IN
                   IF rest.st = "raise" THEN rest
                   ELSE Ok(<<Head(addons)["addon_id"]>> \o rest.v)
         ELSE AddonIds(Tail(addons))

Normalize(profile_data, client_id) ==
    LET addon_ids == AddonIds(DictGet(profile_data, "active_addons", <<>>)) IN
    IF addon_ids.st = "raise" THEN addon_ids
    ELSE Ok([client_id |-> client_id,
             geo_city |-> DictGet(profile_data, "city", ""),
             subsession_length |-> DictGet(profile_data, "subsession_length", 0),
             locale |-> DictGet(profile_data, "locale", ""),
             os |-> DictGet(profile_data, "os", ""),
             installed_addons |-> addon_ids.v,
             disabled_addons_ids |-> DictGet(profile_data, "disabled_addons_ids", <<>>),
             bookmark_count |-> DictGet(profile_data, "places_bookmarks_count", 0),
             tab_open_count |-> DictGet(profile_data,
                 "scalar_parent_browser_engagement_tab_open_event_count", 0),
             total_uri |-> DictGet(profile_data,
                 "scalar_parent_browser_engagement_total_uri_count", 0),
             unique_tlds |-> DictGet(profile_data,
                 "scalar_parent_browser_engagement_unique_domains_count", 0)])

\* get, from the return of get_client_profile on
GetTail(profile_data, client_id) ==
    IF profile_data.st = "raise" THEN profile_data
    ELSE IF profile_data.v = None THEN Ok(None)
    ELSE Normalize(profile_data.v, client_id)

\* ProfileFetcher.get, called while no other call is in progress
Get(id) ==
    /\ \A t \in Threads : thr[t].pc = "idle"
    /\ IF IsReserved(id)
       THEN /\ ret' = Ret("get", id, Ok(Synthetic(id)), TRUE, <<>>, 0, injections)
            /\ UNCHANGED <<client, constructed, hist>>
       ELSE \E ctorOk \in BOOLEAN, io \in BOOLEAN :
            /\ NeedsConstruct(client) => constructed < MaxConstruct
            /\ LET p == ClientProperty(client, constructed, ctorOk) IN
               /\ client' = p.client
               /\ constructed' = p.constructed
               /\ hist' = [hist EXCEPT !.lookedUp = @ \/ injections = 0]
               /\ ret' = IF p.st = "raise"
                         THEN Ret("get", id, Raise(p.exc), TRUE, <<>>, 0, injections)
                         ELSE Ret("get", id, GetTail(Lookup(p.v, id, io), id), io,
                                  <<p.v>>, p.constructed - constructed, injections)
    /\ UNCHANGED <<injections, lastInjected, storeVars, thr>>

SetClient(b) ==
    /\ injections < MaxInject
    /\ client' = b
    /\ injections' = injections + 1
    /\ lastInjected' = b
    /\ hist' = [hist EXCEPT !.injectedNone = @ \/ b = None]
    /\ ret' = Ret("set_client", "", Ok(None), TRUE, <<>>, 0, injections + 1)
    /\ UNCHANGED <<constructed, storeVars, thr>>

InitTables == {EmptyTable} \cup {BT_set_client_profile(EmptyTable, r, 0) : r \in {R1("c1"), R2("c1"), R3("c1")}}

StoredIn(table) ==
    [id \in ClientIds |->
        IF table[RowKey(id)] = {} THEN None
        ELSE CHOOSE r \in SetRecords : Encode(r) = Latest(table[RowKey(id)]).value]

Init ==
    /\ client = None
    /\ constructed = 0
    /\ injections = 0
    /\ lastInjected = None
    /\ hist = [lookedUp |-> FALSE, injectedNone |-> FALSE]
    /\ btTable \in InitTables
    /\ ddbTable \in {[id \in ClientIds |-> IF id = "c1" THEN i ELSE None] : i \in DdbItems("c1")}
    /\ now = 0
    /\ writes = 0
    /\ lastSet = StoredIn(btTable)
    /\ thr = [t \in Threads |-> Idle]
    /\ ret = NoRet

Next ==
    \/ \E id \in AllIds : Get(id)
    \/ \E b \in Injectables : SetClient(b)

Spec == Init /\ [][Next]_vars

----------------------------------------------------------------------------
(* ProfileFetcher.get called from several threads: the steps of one call,  *)
(* between which another thread may run.                                   *)

SetThr(t, pc, id, tmp, local, epoch) ==
    [thr EXCEPT ![t] = [pc |-> pc, id |-> id, tmp |-> tmp, local |-> local, epoch |-> epoch]]

\* get is entered; a reserved identifier returns at once
TBegin(t, id) ==
    /\ thr[t].pc = "idle"
    /\ IF IsReserved(id)
       THEN /\ ret' = Ret("get", id, Ok(Synthetic(id)), TRUE, <<>>, 0, injections)
            /\ UNCHANGED thr
       ELSE /\ thr' = SetThr(t, "check", id, None, None, injections)
            /\ UNCHANGED ret
    /\ UNCHANGED <<fetcherVars, storeVars>>

\* _client: if self.__client is None
TCheck(t) ==
    /\ thr[t].pc = "check"
    /\ thr' = [thr EXCEPT ![t].pc = IF NeedsConstruct(client) THEN "construct" ELSE "return"]
    /\ hist' = [hist EXCEPT !.lookedUp = @ \/ injections = 0]
    /\ UNCHANGED <<client, constructed, injections, lastInjected, storeVars, ret>>

\* _client: BigTableProfileController(...)
TConstruct(t) ==
    /\ thr[t].pc = "construct"
    /\ constructed < MaxConstruct
    /\ \E ctorOk \in BOOLEAN :
          IF ctorOk
          THEN /\ constructed' = constructed + 1
               /\ thr' = [thr EXCEPT ![t].pc = "store", ![t].tmp = DefaultBackend(constructed + 1)]
               /\ UNCHANGED ret
          ELSE /\ ret' = Ret("get", thr[t].id, Raise("ConstructionError"), TRUE, <<>>, 0, thr[t].epoch)
               /\ thr' = [thr EXCEPT ![t] = Idle]
               /\ UNCHANGED constructed
    /\ UNCHANGED <<client, injections, lastInjected, hist, storeVars>>

\* _client: self.__client = <the new controller>
TStore(t) ==
    /\ thr[t].pc = "store"
    /\ client' = thr[t].tmp
    /\ thr' = [thr EXCEPT ![t].pc = "return"]
    /\ UNCHANGED <<constructed, injections, lastInjected, hist, storeVars, ret>>

\* _client: return self.__client
TReturn(t) ==
    /\ thr[t].pc = "return"
    /\ thr' = [thr EXCEPT ![t].pc = "lookup", ![t].local = client]
    /\ UNCHANGED <<fetcherVars, storeVars, ret>>

\* get: get_client_profile on the backend obtained, then the rest of get
TLookup(t) ==
    /\ thr[t].pc = "lookup"
    /\ \E io \in BOOLEAN :
          ret' = Ret("get", thr[t].id, GetTail(Lookup(thr[t].local, thr[t].id, io), thr[t].id),
                     io, <<thr[t].local>>,
                     IF thr[t].tmp = None THEN 0 ELSE 1, thr[t].epoch)
    /\ thr' = [thr EXCEPT ![t] = Idle]
    /\ UNCHANGED <<fetcherVars, storeVars>>

ConcInit ==
    /\ client = None
    /\ constructed = 0
    /\ injections = 0
    /\ lastInjected = None
    /\ hist = [lookedUp |-> FALSE, injectedNone |-> FALSE]
    /\ btTable = BT_set_client_profile(EmptyTable, R2("c1"), 0)
    /\ ddbTable = [id \in ClientIds |->
                     IF id = "c1" THEN [client_id |-> id, json_payload |-> Encode(R2(id))]
                     ELSE None]
    /\ now = 0
    /\ writes = 0
    /\ lastSet = StoredIn(btTable)
    /\ thr = [t \in Threads |-> Idle]
    /\ ret = NoRet

ConcNext ==
    \/ \E t \in Threads, id \in AllIds : TBegin(t, id)
    \/ \E t \in Threads : TCheck(t)
    \/ \E t \in Threads : TConstruct(t)
    \/ \E t \in Threads : TStore(t)
    \/ \E t \in Threads : TReturn(t)
    \/ \E t \in Threads : TLookup(t)
    \/ \E b \in Injectables : SetClient(b)

ConcSpec == ConcInit /\ [][ConcNext]_vars

----------------------------------------------------------------------------
(* get over every raw record a backend can hand back *)

AddonEntries == {[addon_id |-> "a"],
                 [addon_id |-> "b", is_system |-> FALSE],
                 [addon_id |-> "s", is_system |-> TRUE],
                 [is_system |-> TRUE],
                 EmptyDict}

AddonLists == UNION {[1..n -> AddonEntries] : n \in 0..MaxAddons}

StrValue(k) == IF k = "city" THEN "Paris" ELSE IF k = "locale" THEN "fr" ELSE "Darwin"

AllRaw ==
    {[k \in S |-> StrValue(k)] @@ [k \in I |-> 5] @@ a @@ d :
        S \in SUBSET {"city", "locale", "os"},
        I \in SUBSET IntKeys,
        a \in {EmptyDict} \cup {[k \in {"active_addons"} |-> l] : l \in AddonLists},
        d \in {EmptyDict, [k \in {"disabled_addons_ids"} |-> <<"d", "e">>]}}

NormInit ==
    /\ client = DynamoBackend
    /\ constructed = 0
    /\ injections = 1
    /\ lastInjected = DynamoBackend
    /\ hist = [lookedUp |-> FALSE, injectedNone |-> FALSE]
    /\ btTable = EmptyTable
    /\ ddbTable \in {[id \in ClientIds |->
                        IF id = "c1" THEN [client_id |-> id, json_payload |-> Encode(r)]
                        ELSE None] : r \in AllRaw}
    /\ now = 0
    /\ writes = 0
    /\ lastSet = [id \in ClientIds |->
                     IF id = "c1" THEN Decode(ddbTable[id].json_payload).v ELSE None]
    /\ thr = [t \in Threads |-> Idle]
    /\ ret = NoRet

NormNext == \E id \in ClientIds : Get(id)

NormSpec == NormInit /\ [][NormNext]_vars

----------------------------------------------------------------------------
(* Properties *)

Reserved == {"t1", "e1"}

\* C1: get on a reserved test identifier returns the fixed synthetic profile
\* (the same for both reserved sets), performs no lookup on any backend and
\* constructs none, whatever the state of the cached backend.
C1_ReservedShortCircuit ==
    (ret.op = "get" /\ ret.id \in Reserved) =>
        /\ ret.st = "return"
        /\ ret.val = [client_id |-> ret.id, geo_city |-> "Toronto",
                      subsession_length |-> 42, locale |-> "en-CA", os |-> "Linux",
                      installed_addons |-> <<>>, disabled_addons_ids |-> <<>>,
                      bookmark_count |-> 0, tab_open_count |-> 0, total_uri |-> 0,
                      unique_tlds |-> 0]
        /\ ret.lookups = <<>>
        /\ ret.built = 0
        /\ (injections = 0 => constructed = 0 \/ hist.lookedUp)

C1_Witness ==
    /\ ret.op = "get" /\ ret.id = "e1" /\ ret.st = "return"
    /\ client = None /\ constructed = 0

\* C2: once the backend is resolved, get on a non-reserved identifier never
\* raises, whichever backend is active: a failed lookup surfaces as None.
C2_GetNeverRaises ==
    (ret.op = "get" /\ ret.id \in ClientIds /\ ret.lookups # <<>>) => ret.st = "return"

\* C3: the BigTable controller's get_client_profile returns None for a client
\* for which no row was ever written.
C3_MissingRowIsAbsence ==
    (ret.op = "bt_get" /\ ret.io /\ lastSet[ret.id] = None) =>
        (ret.st = "return" /\ ret.val = None)

\* C4: the DynamoDB controller's get_client_profile never raises; it returns
\* the stored record when the read succeeded and the item's payload is the
\* encoding of a record, and None in every other case.
C4_DynamoNeverRaises ==
    ret.op = "ddb_get" =>
        /\ ret.st = "return"
        /\ LET item == ddbTable[ret.id] IN
           IF /\ ret.io
              /\ item # None
              /\ "json_payload" \in DOMAIN item
              /\ \E r \in SetRecords : item.json_payload = Encode(r)
           THEN ret.val = CHOOSE r \in SetRecords : item.json_payload = Encode(r)
           ELSE ret.val = None

C4_Witness ==
    /\ ret.op = "ddb_get" /\ ret.id = "c1" /\ ret.io
    /\ ddbTable["c1"] = [client_id |-> "c1", json_payload |-> CorruptZlib(R2("c1"))]
    /\ ret.val = None

\* C5: with no backend ever injected and calls made one after another, the
\* default backend is constructed at most once, it stays cached, and every
\* lookup is performed on that one instance.
C5_ConstructedOnce ==
    injections = 0 =>
        /\ constructed <= 1
        /\ client = (IF constructed = 0 THEN None ELSE DefaultBackend(1))
        /\ (ret.op = "get" /\ ret.lookups # <<>>) =>
              /\ ret.lookups = <<DefaultBackend(1)>>
              /\ constructed = 1

C5_Witness ==
    /\ injections = 0 /\ constructed = 1
    /\ ret.op = "get" /\ ret.lookups = <<DefaultBackend(1)>> /\ ret.built = 0

\* C6: under concurrent first calls with no backend injected, the default
\* backend is constructed exactly once and every caller looks up on it.
C6_ExactlyOnceInit ==
    injections = 0 =>
        /\ constructed <= 1
        /\ (ret.op = "get" /\ ret.lookups # <<>>) => ret.lookups = <<DefaultBackend(1)>>

\* C7: after set_client(b) with a backend b, every get that starts afterwards
\* looks up on b and on nothing else; and when that injection comes before any
\* get resolved the backend, the default backend is never constructed.
C7_InjectionReplaces ==
    /\ (/\ ret.op = "get" /\ ret.lookups # <<>>
        /\ injections > 0 /\ ret.epoch = injections /\ lastInjected # None)
          => ret.lookups = <<lastInjected>>
    /\ (injections > 0 /\ ~hist.lookedUp /\ ~hist.injectedNone) => constructed = 0

\* C8: for every raw record the backend returns, get returns a profile, and
\* every output field whose source key is absent has its default.
C8_NormalizeTotal ==
    (ret.op = "get" /\ ret.id = "c1" /\ ret.io /\ lastSet["c1"] # None) =>
        /\ ret.st = "return"
        /\ ret.val # None
        /\ LET raw == lastSet["c1"]
               out == ret.val
           IN /\ "city" \notin DOMAIN raw => out.geo_city = ""
              /\ "locale" \notin DOMAIN raw => out.locale = ""
              /\ "os" \notin DOMAIN raw => out.os = ""
              /\ "subsession_length" \notin DOMAIN raw => out.subsession_length = 0
              /\ "places_bookmarks_count" \notin DOMAIN raw => out.bookmark_count = 0
              /\ "scalar_parent_browser_engagement_tab_open_event_count" \notin DOMAIN raw
                    => out.tab_open_count = 0
              /\ "scalar_parent_browser_engagement_total_uri_count" \notin DOMAIN raw
                    => out.total_uri = 0
              /\ "scalar_parent_browser_engagement_unique_domains_count" \notin DOMAIN raw
                    => out.unique_tlds = 0
              /\ "active_addons" \notin DOMAIN raw => out.installed_addons = <<>>
              /\ "disabled_addons_ids" \notin DOMAIN raw => out.disabled_addons_ids = <<>>

FlagAbsentOrFalse(a) == "is_system" \notin DOMAIN a \/ a.is_system = FALSE

\* C9: installed_addons of a returned profile is the sequence of addon_id of
\* the active_addons entries whose is_system is absent or false, in order.
C9_InstalledAddons ==
    (ret.op = "get" /\ ret.id = "c1" /\ ret.st = "return" /\ ret.val # None) =>
        LET act == IF "active_addons" \in DOMAIN lastSet["c1"]
                   THEN lastSet["c1"]["active_addons"] ELSE <<>>
            keep == SelectSeq(act, FlagAbsentOrFalse)
        IN /\ Len(ret.val.installed_addons) = Len(keep)
           /\ \A i \in 1..Len(keep) : ret.val.installed_addons[i] = keep[i]["addon_id"]

C9_Witness ==
    /\ ret.op = "get" /\ ret.id = "c1" /\ ret.st = "return" /\ ret.val # None
    /\ "active_addons" \in DOMAIN lastSet["c1"]
    /\ lastSet["c1"]["active_addons"] = <<[addon_id |-> "s", is_system |-> TRUE],
                                         [addon_id |-> "b", is_system |-> FALSE]>>
    /\ ret.val.installed_addons = <<"b">>

====
